---- MODULE Spec2Model ----
(***************************************************************************)
(* A model of tool_calling_exercise.py: the mock chat model                *)
(* (ChatOpenAI.invoke), the text-length tool, the tool executor            *)
(* (implement_execute_tool_call) and the single-turn agent loop            *)
(* (implement_run_agent_with_tool_calling).                                *)
(*                                                                         *)
(* A Python str is a sequence of one-character strings; every other Python *)
(* value is a record tagged with its type in field t.                      *)
(***************************************************************************)
EXTENDS Naturals, Sequences, FiniteSets, TLC

VARIABLES pc, model_with_tools, user_input, available_tools, response,
          result, raised, model_calls, tool_invocations

vars == <<pc, model_with_tools, user_input, available_tools, response,
          result, raised, model_calls, tool_invocations>>

---------------------------------------------------------------------------
(* Bounds of the model. *)

\* Longest prompt, in tokens of PromptTokens.
MaxTokens == 3
\* Longest tail of a prompt about a quoted text, in tokens of QuoteTokens.
MaxQuoteTokens == 3
\* Longest prompt inside a message list, in tokens of PromptTokens.
MaxListTokens == 2
\* Longest tool registry handed to the agent loop.
MaxTools == 2
\* Longest tool-call list of a scripted response.
MaxCalls == 2
\* Longest text handed to get_text_length directly, in characters.
MaxTextLen == 3

---------------------------------------------------------------------------
(* Characters and strings. *)

UpperChars == <<"A","B","C","D","E","F","G","H","I","J","K","L","M",
                "N","O","P","Q","R","S","T","U","V","W","X","Y","Z">>
LowerChars == <<"a","b","c","d","e","f","g","h","i","j","k","l","m",
                "n","o","p","q","r","s","t","u","v","w","x","y","z">>
DigitChars == <<"0","1","2","3","4","5","6","7","8","9">>

Range(f) == {f[i] : i \in DOMAIN f}

UpperSet == Range(UpperChars)
LowerSet == Range(LowerChars)
DigitSet == Range(DigitChars)
\* The lower-case letter of each upper-case one.
LowerOf == [c \in UpperSet |-> LowerChars[CHOOSE i \in DOMAIN UpperChars : UpperChars[i] = c]]

IsUpper(c) == c \in UpperSet
IsLower(c) == c \in LowerSet
IsAlpha(c) == IsUpper(c) \/ IsLower(c)
IsDigit(c) == c \in DigitSet
\* \w : letters, digits and the underscore.
IsWordChar(c) == IsAlpha(c) \/ IsDigit(c) \/ c = "_"
\* \s : the whitespace characters the model's alphabet holds.
IsSpace(c) == c \in {" ", "\n", "\t"}
IsQuote(c) == c \in {"\"", "'"}

\* str.lower() on one character.
LowerChar(c) == IF IsUpper(c) THEN LowerOf[c] ELSE c

\* str.lower()
Lower(s) == [i \in DOMAIN s |-> LowerChar(s[i])]

\* s[i..] starts with t
StartsAt(s, i, t) ==
    /\ i + Len(t) - 1 <= Len(s)
    /\ \A j \in 1..Len(t) : s[i + j - 1] = t[j]

\* t in s
Contains(s, t) == \E i \in 1..(Len(s) + 1) : StartsAt(s, i, t)

RECURSIVE Flatten(_)
Flatten(ss) == IF ss = <<>> THEN <<>> ELSE Head(ss) \o Flatten(Tail(ss))

\* str(n) of a non-negative int
RECURSIVE IntToStr(_)
IntToStr(n) ==
    IF n < 10 THEN <<DigitChars[n + 1]>>
    ELSE IntToStr(n \div 10) \o <<DigitChars[(n % 10) + 1]>>

\* Python values.
PyStr(s) == [t |-> "str", v |-> s]
PyInt(n) == [t |-> "int", v |-> n]
PyNone == [t |-> "NoneType"]
PyList(xs) == [t |-> "list", v |-> xs]
PyDict(d) == [t |-> "dict", v |-> d]

IsStr(x) == x.t = "str"

\* repr(s) of a str: in single quotes, or in double quotes when s holds a
\* single quote and no double quote; control characters, the backslash and
\* the enclosing quote are escaped.
ReprQuote(s) ==
    IF "'" \in Range(s) /\ "\"" \notin Range(s) THEN "\"" ELSE "'"
ReprChar(c, q) ==
    CASE c = "\n" -> <<"\\", "n">>
      [] c = "\t" -> <<"\\", "t">>
      [] c = "\\" -> <<"\\", "\\">>
      [] c = q -> <<"\\", c>>
      [] OTHER -> <<c>>
ReprStr(s) ==
    LET q == ReprQuote(s)
    IN <<q>> \o Flatten([i \in DOMAIN s |-> ReprChar(s[i], q)]) \o <<q>>

\* str(x), for the values the model passes to it: a str, an int, None, and
\* the argument dict {'text': <str>}.
str(x) ==
    CASE x.t = "str" -> x
      [] x.t = "int" -> PyStr(IntToStr(x.v))
      [] x.t = "NoneType" -> PyStr(<<"N","o","n","e">>)
      [] x.t = "dict" ->
           PyStr(<<"{","'","t","e","x","t","'",":"," ">> \o ReprStr(x.v.text.v) \o <<"}">>)

---------------------------------------------------------------------------
(* The regular expressions of ChatOpenAI.invoke, matched as re.search      *)
(* matches them: leftmost start, then the first success of a backtracking  *)
(* search that tries each item's alternatives in priority order.           *)

Lit(s) == [k |-> "lit", s |-> s]
Alt(a, b) == [k |-> "alt", a |-> <<a, b>>]
LazyDot == [k |-> "lazy_dot"]
Greedy(cls, min, cap) == [k |-> "greedy", cls |-> cls, min |-> min, cap |-> cap]
OneOf(cls) == [k |-> "class", cls |-> cls]
WordBoundary == [k |-> "wb"]

s_length == <<"l","e","n","g","t","h">>
s_dog == <<"d","o","g">>
s_of == <<"o","f">>
s_for == <<"f","o","r">>
s_word == <<"w","o","r","d">>
s_text == <<"t","e","x","t">>
s_colon == <<":">>

\* The list with the quoted-text pattern moved behind the fallback.
patterns_QuotedLast == <<
    << Lit(s_length), LazyDot, Alt(s_of, s_for), LazyDot, Alt(s_word, s_text),
       LazyDot, Lit(s_colon), Greedy("space", 0, FALSE), Greedy("alpha", 1, TRUE) >>,
    << Lit(s_length), LazyDot, Alt(s_of, s_for), LazyDot, Alt(s_word, s_text),
       Greedy("space", 1, FALSE), Greedy("alpha", 1, TRUE) >>,
    << Alt(s_word, s_text), Greedy("space", 0, FALSE), Lit(s_colon),
       Greedy("space", 0, FALSE), Greedy("alpha", 1, TRUE) >>,
    << Lit(s_length), LazyDot, Lit(s_colon), Greedy("space", 0, FALSE),
       Greedy("alpha", 1, TRUE) >>,
    << WordBoundary, Greedy("upper", 1, TRUE), WordBoundary >>,
    << Lit(s_length), LazyDot, Alt(s_of, s_for), LazyDot, OneOf("quote"),
       Greedy("notquote", 1, TRUE), OneOf("quote") >> >>

\* The six patterns, in the order of the list.
patterns == <<
    \* length.*?(?:of|for).*?["\']([^"\']+)["\']
    << Lit(s_length), LazyDot, Alt(s_of, s_for), LazyDot, OneOf("quote"),
       Greedy("notquote", 1, TRUE), OneOf("quote") >>,
    \* length.*?(?:of|for).*?(?:word|text).*?:\s*([A-Za-z]+)
    << Lit(s_length), LazyDot, Alt(s_of, s_for), LazyDot, Alt(s_word, s_text),
       LazyDot, Lit(s_colon), Greedy("space", 0, FALSE), Greedy("alpha", 1, TRUE) >>,
    \* length.*?(?:of|for).*?(?:word|text)\s+([A-Za-z]+)
    << Lit(s_length), LazyDot, Alt(s_of, s_for), LazyDot, Alt(s_word, s_text),
       Greedy("space", 1, FALSE), Greedy("alpha", 1, TRUE) >>,
    \* (?:word|text)\s*:\s*([A-Za-z]+)
    << Alt(s_word, s_text), Greedy("space", 0, FALSE), Lit(s_colon),
       Greedy("space", 0, FALSE), Greedy("alpha", 1, TRUE) >>,
    \* length.*?:\s*([A-Za-z]+)
    << Lit(s_length), LazyDot, Lit(s_colon), Greedy("space", 0, FALSE),
       Greedy("alpha", 1, TRUE) >>,
    \* \b([A-Z]+)\b
    << WordBoundary, Greedy("upper", 1, TRUE), WordBoundary >> >>

\* Whether character c is in class cls; under re.IGNORECASE a letter class
\* holds a letter when it holds either case of it.
InClass(cls, c, ignorecase) ==
    CASE cls = "quote" -> IsQuote(c)
      [] cls = "notquote" -> ~IsQuote(c)
      [] cls = "space" -> IsSpace(c)
      [] cls = "alpha" -> IsAlpha(c)
      [] cls = "upper" -> IF ignorecase THEN IsAlpha(c) ELSE IsUpper(c)
      [] cls = "dot" -> c # "\n"

\* The subject of a search: the string, the string literals are compared
\* with (its lower case under re.IGNORECASE), and the flag.
Subject(s, ignorecase) ==
    [s |-> s, cmp |-> IF ignorecase THEN Lower(s) ELSE s, ignorecase |-> ignorecase]

\* The length of the longest run of characters of class cls from s[pos].
RECURSIVE RunLen(_, _, _, _)
RunLen(cls, s, pos, ignorecase) ==
    IF pos <= Len(s) /\ InClass(cls, s[pos], ignorecase)
    THEN 1 + RunLen(cls, s, pos + 1, ignorecase)
    ELSE 0

\* A literal at position pos; under re.IGNORECASE letters compare by lower
\* case.
LitAt(subj, pos, lit) ==
    StartsAt(subj.cmp, pos, IF subj.ignorecase THEN Lower(lit) ELSE lit)

\* \b at pos: exactly one of s[pos-1], s[pos] is a word character.
AtWordBoundary(s, pos) ==
    LET before == pos > 1 /\ IsWordChar(s[pos - 1])
        after == pos <= Len(s) /\ IsWordChar(s[pos])
    IN before # after

\* The positions after an item matched at pos, in the order the matcher
\* tries them.
Ends(item, subj, pos) ==
    CASE item.k = "lit" ->
           IF LitAt(subj, pos, item.s) THEN <<pos + Len(item.s)>> ELSE <<>>
      [] item.k = "alt" ->
           (IF LitAt(subj, pos, item.a[1]) THEN <<pos + Len(item.a[1])>> ELSE <<>>)
           \o (IF LitAt(subj, pos, item.a[2]) THEN <<pos + Len(item.a[2])>> ELSE <<>>)
      [] item.k = "lazy_dot" ->
           \* lazy: the shortest first
           [i \in 1..(RunLen("dot", subj.s, pos, subj.ignorecase) + 1) |-> pos + i - 1]
      [] item.k = "greedy" ->
           \* greedy: the longest first, down to min
           LET n == RunLen(item.cls, subj.s, pos, subj.ignorecase)
           IN IF n < item.min THEN <<>>
              ELSE [i \in 1..(n - item.min + 1) |-> pos + n - i + 1]
      [] item.k = "class" ->
           IF pos <= Len(subj.s) /\ InClass(item.cls, subj.s[pos], subj.ignorecase)
           THEN <<pos + 1>> ELSE <<>>
      [] item.k = "wb" ->
           IF AtWordBoundary(subj.s, pos) THEN <<pos>> ELSE <<>>

NoMatch == [ok |-> FALSE, group1 |-> <<>>]

\* The first success of items k.. of re at pos, with group 1 so far in g.
RECURSIVE MatchHere(_, _, _, _, _)
RECURSIVE TryEnds(_, _, _, _, _, _, _)
MatchHere(re, k, subj, pos, g) ==
    IF k > Len(re) THEN [ok |-> TRUE, group1 |-> g]
    ELSE TryEnds(re, k, subj, pos, g, Ends(re[k], subj, pos), 1)

TryEnds(re, k, subj, pos, g, ends, i) ==
    IF i > Len(ends) THEN NoMatch
    ELSE LET item == re[k]
             g2 == IF item.k = "greedy" /\ item.cap
                   THEN SubSeq(subj.s, pos, ends[i] - 1) ELSE g
             m == MatchHere(re, k + 1, subj, ends[i], g2)
         IN IF m.ok THEN m
            ELSE TryEnds(re, k, subj, pos, g, ends, i + 1)

\* The match at the leftmost start from start on that has one.
RECURSIVE SearchFrom(_, _, _)
SearchFrom(re, subj, start) ==
    IF start > Len(subj.s) + 1 THEN NoMatch
    ELSE LET m == MatchHere(re, 1, subj, start, <<>>)
         IN IF m.ok THEN m ELSE SearchFrom(re, subj, start + 1)

\* re.search(pattern, s, flags)
re_search(re, s, ignorecase) == SearchFrom(re, Subject(s, ignorecase), 1)

---------------------------------------------------------------------------
(* Tool, AIMessage, ChatOpenAI. *)

\* What a call gives: the value it returns, or the exception it raises
\* ("none" when it returns), and the tools it invoked on the way.
Returns(v) == [raised |-> "none", value |-> v]
Raises(e) == [raised |-> e, value |-> PyNone]

\* AIMessage.__init__ : tool_calls or []
AIMessage(content, tool_calls) == [content |-> content, tool_calls |-> tool_calls]

s_get_text_length == <<"g","e","t","_","t","e","x","t","_","l","e","n","g","t","h">>
s_unknown == <<"u","n","k","n","o","w","n">>
s_DOG == <<"D","O","G">>
\* "I can help you with text length calculations!"
s_fallback == <<"I"," ","c","a","n"," ","h","e","l","p"," ","y","o","u"," ",
                "w","i","t","h"," ","t","e","x","t"," ","l","e","n","g","t","h"," ",
                "c","a","l","c","u","l","a","t","i","o","n","s","!">>

\* A tool call as the mock model builds it.
ToolCall(name, args, id) ==
    [name |-> name, args |-> args, id |-> id, type |-> "tool_call"]

\* The argument dict {'text': text}.
TextArgs(text) == PyDict([text |-> text])

\* The first argument of ChatOpenAI.invoke as the text it classifies
\* (the isinstance chain at the top of invoke).
invoke_user_input(messages) ==
    IF messages.t = "str" THEN messages
    ELSE IF messages.t = "list" /\ Len(messages.v) > 0
    THEN LET last == messages.v[Len(messages.v)]
         IN IF last.t = "dict"
            THEN (IF "content" \in DOMAIN last.v THEN last.v.content ELSE PyStr(<<>>))
            ELSE str(last)
    ELSE PyStr(<<>>)

\* The loop without its break: the last pattern that matches wins.
RECURSIVE extract_text_NoBreak(_, _, _)
extract_text_NoBreak(s, k, text) ==
    IF k > Len(patterns) THEN text
    ELSE LET text_match == re_search(patterns[k], s, TRUE)
         IN extract_text_NoBreak(s, k + 1,
                IF text_match.ok THEN PyStr(text_match.group1) ELSE text)

\* The loop over the patterns from pattern k on: the first capture group of
\* the first pattern that matches (the break), or text when none does.
RECURSIVE extract_text(_, _, _)
extract_text(s, k, text) ==
    IF k > Len(patterns) THEN text
    ELSE LET text_match == re_search(patterns[k], s, TRUE)
         IN IF text_match.ok THEN PyStr(text_match.group1)
            ELSE extract_text(s, k + 1, text)

\* A loop that starts from None instead of a placeholder string.
default_text_None == PyNone

\* text = "unknown", the value the loop starts from.
default_text == PyStr(s_unknown)

\* The keyword test without .lower().
contains_keyword_CaseSensitive(s, keyword) == Contains(s, keyword)

\* "<keyword>" in user_input.lower()
contains_keyword(s, keyword) == Contains(Lower(s), keyword)

\* A tool-call response that also carries an announcement as its content.
tool_call_response_WithContent(text, id) ==
    AIMessage(PyStr(<<"C","a","l","l","i","n","g">>),
              <<ToolCall(s_get_text_length, TextArgs(text), id)>>)

\* The AIMessage that carries a tool call for the length tool: empty
\* content and one call.
tool_call_response(text, id) ==
    AIMessage(PyStr(<<>>), <<ToolCall(s_get_text_length, TextArgs(text), id)>>)

\* A model without its last branch: every prompt gets a tool call.
ChatOpenAI_invoke_AlwaysCalls(messages) ==
    LET ui == invoke_user_input(messages)
    IN IF ~IsStr(ui) THEN Raises("AttributeError")
       ELSE Returns(tool_call_response(extract_text(ui.v, 1, default_text), "call_124"))

\* ChatOpenAI.invoke
ChatOpenAI_invoke(messages) ==
    LET ui == invoke_user_input(messages)
    IN IF ~IsStr(ui) THEN Raises("AttributeError")
       ELSE IF contains_keyword(ui.v, s_length) /\ contains_keyword(ui.v, s_dog)
       THEN Returns(tool_call_response(PyStr(s_DOG), "call_123"))
       ELSE IF contains_keyword(ui.v, s_length)
       THEN Returns(tool_call_response(extract_text(ui.v, 1, default_text), "call_124"))
       ELSE Returns(AIMessage(PyStr(s_fallback), <<>>))

\* str.strip(chars): s without its leading and trailing characters of chars.
RECURSIVE LStrip(_, _)
LStrip(s, chars) ==
    IF s # <<>> /\ Head(s) \in chars THEN LStrip(Tail(s), chars) ELSE s
RECURSIVE RStrip(_, _)
RStrip(s, chars) ==
    IF s # <<>> /\ s[Len(s)] \in chars THEN RStrip(SubSeq(s, 1, Len(s) - 1), chars) ELSE s
\* A strip of the leading characters only.
Strip_LeadingOnly(s, chars) == LStrip(s, chars)

Strip(s, chars) == RStrip(LStrip(s, chars), chars)

\* get_text_length: text.strip("'\n").strip('"'), then len.
get_text_length(text) ==
    IF ~IsStr(text) THEN Raises("AttributeError")
    ELSE Returns(PyInt(Len(Strip(Strip(text.v, {"'", "\n"}), {"\""}))))

\* Tool.__init__
Tool(name, description, func) ==
    [name |-> name, description |-> description, func |-> func]

text_length_tool ==
    Tool(s_get_text_length, "Returns the length of a text by characters", "get_text_length")

\* Tool.invoke: self.func(input_data). Besides get_text_length the model
\* knows one more function, "echo", which returns its argument.
Tool_invoke(tool, input_data) ==
    IF tool.func = "get_text_length" THEN get_text_length(input_data)
    ELSE Returns(input_data)

\* implement_check_for_tool_calls
implement_check_for_tool_calls(resp) == resp.tool_calls # <<>>

\* The for loop of implement_execute_tool_call from available_tools[i] on.
\* invoked lists the tools invoked, by their index in available_tools.
RECURSIVE execute_from(_, _, _)
execute_from(tool_call, tools, i) ==
    IF i > Len(tools)
    THEN [raised |-> "none",
          value |-> PyStr(<<"T","o","o","l"," ">> \o tool_call.name
                          \o <<" ","n","o","t"," ","f","o","u","n","d">>),
          invoked |-> <<>>]
    ELSE IF tools[i].name = tool_call.name
    THEN IF tool_call.name = s_get_text_length /\ tool_call.args.t = "dict"
         THEN IF "text" \notin DOMAIN tool_call.args.v
              THEN [raised |-> "KeyError", value |-> PyNone, invoked |-> <<>>]
              ELSE LET r == Tool_invoke(tools[i], tool_call.args.v.text)
                   IN [raised |-> r.raised,
                       value |-> IF r.raised = "none" THEN str(r.value) ELSE PyNone,
                       invoked |-> <<[tool |-> i, input |-> tool_call.args.v.text]>>]
         ELSE LET r == Tool_invoke(tools[i], tool_call.args)
              IN [raised |-> r.raised,
                  value |-> IF r.raised = "none" THEN str(r.value) ELSE PyNone,
                  invoked |-> <<[tool |-> i, input |-> tool_call.args]>>]
    ELSE execute_from(tool_call, tools, i + 1)

\* A lookup that skips the first tool of the registry.
implement_execute_tool_call_SkipFirst(tool_call, tools) == execute_from(tool_call, tools, 2)

\* implement_execute_tool_call
implement_execute_tool_call(tool_call, tools) == execute_from(tool_call, tools, 1)

\* model_with_tools.invoke(user_input): the mock model, or a model object
\* that answers with a prepared AIMessage.
Model_invoke(model, messages) ==
    IF model.kind = "ChatOpenAI" THEN ChatOpenAI_invoke(messages)
    ELSE Returns(model.reply)

\* implement_create_model_with_tools: ChatOpenAI(temperature=0).bind_tools(tools)
implement_create_model_with_tools(tools) ==
    [kind |-> "ChatOpenAI", temperature |-> 0, tools |-> tools]

\* The loop picking the last tool call of the response.
first_tool_call_Last(resp) == resp.tool_calls[Len(resp.tool_calls)]

\* The tool call the loop picks: response.tool_calls[0].
first_tool_call(resp) == resp.tool_calls[1]

---------------------------------------------------------------------------
(* The agent loop, implement_run_agent_with_tool_calling, as a state       *)
(* machine: AWAITING_MODEL -> DONE, or AWAITING_MODEL -> EXECUTING_TOOL -> *)
(* DONE; RAISED when an exception escapes.                                 *)

NoResponse == AIMessage(PyStr(<<>>), <<>>)

\* Steps 1, 2 and 4: invoke the model once; without tool calls its content
\* is the final answer.
InvokeModel ==
    /\ pc = "AWAITING_MODEL"
    /\ LET r == Model_invoke(model_with_tools, user_input)
       IN IF r.raised # "none"
          THEN /\ raised' = r.raised
               /\ pc' = "RAISED"
               /\ UNCHANGED <<response, result>>
          ELSE /\ response' = r.value
               /\ raised' = raised
               /\ IF implement_check_for_tool_calls(r.value)
                  THEN pc' = "EXECUTING_TOOL" /\ result' = result
                  ELSE pc' = "DONE" /\ result' = r.value.content
    /\ model_calls' = Append(model_calls, user_input)
    /\ UNCHANGED <<model_with_tools, user_input, available_tools, tool_invocations>>

\* Step 3: execute the first tool call and return its result.
ExecuteTool ==
    /\ pc = "EXECUTING_TOOL"
    /\ LET r == implement_execute_tool_call(first_tool_call(response), available_tools)
       IN /\ tool_invocations' = tool_invocations \o r.invoked
          /\ IF r.raised = "none"
             THEN /\ result' = r.value
                  /\ pc' = "DONE"
                  /\ UNCHANGED raised
             ELSE /\ raised' = r.raised
                  /\ pc' = "RAISED"
                  /\ UNCHANGED result
    /\ UNCHANGED <<model_with_tools, user_input, available_tools, response, model_calls>>

Next == InvokeModel \/ ExecuteTool


---------------------------------------------------------------------------
(* The inputs. *)

\* The pieces prompts are built from.
PromptTokens ==
    { s_length,
      <<"L","e","n","g","t","h"," ","o","f"," ">>,
      <<" ","f","o","r"," ">>,
      <<"w","o","r","d"," ">>,
      <<"t","e","x","t",":">>,
      <<":">>,
      s_dog,
      <<"D","o","G">>,
      <<"1">>,
      <<"\n">> }

\* Prompts about a quoted text: a lead and pieces of quoting.
QuoteLeads == { <<"l","e","n","g","t","h"," ","o","f"," ">>, <<"L","E","N","G","T","H"," ">> }
QuoteTokens == { <<"'">>, <<"\"">>, <<"c","a","t","s">>, <<"\n">>, <<" ","f","o","r"," ">> }

\* The test prompt of the script: "What is the length of the word: DOG"
user_question ==
    <<"W","h","a","t"," ","i","s"," ","t","h","e"," ","l","e","n","g","t","h"," ",
      "o","f"," ","t","h","e"," ","w","o","r","d",":"," ","D","O","G">>

\* Sequences of at most n elements of S.
RECURSIVE SeqsUpTo(_, _)
SeqsUpTo(S, n) ==
    IF n = 0 THEN {<<>>}
    ELSE LET shorter == SeqsUpTo(S, n - 1)
         IN shorter \cup {Append(q, x) : q \in shorter, x \in S}

Prompts ==
    {Flatten(q) : q \in SeqsUpTo(PromptTokens, MaxTokens)}
    \cup {lead \o Flatten(q) : lead \in QuoteLeads, q \in SeqsUpTo(QuoteTokens, MaxQuoteTokens)}
    \cup {user_question}

\* The script: tools = [text_length_tool], the model bound to them, and one
\* run of the agent on a prompt.
Init ==
    /\ pc = "AWAITING_MODEL"
    /\ available_tools = <<text_length_tool>>
    /\ model_with_tools = implement_create_model_with_tools(<<text_length_tool>>)
    /\ user_input \in {PyStr(p) : p \in Prompts}
    /\ response = NoResponse
    /\ result = PyNone
    /\ raised = "none"
    /\ model_calls = <<>>
    /\ tool_invocations = <<>>

Spec == Init /\ [][Next]_vars

\* ChatOpenAI.invoke on every form of its argument: a str, a list whose last
\* element is a dict (with a str or None under 'content', or without the
\* key) or a str, an empty list, and None.
ListPrompts == {Flatten(q) : q \in SeqsUpTo(PromptTokens, MaxListTokens)}

MessageForms ==
    {PyStr(p) : p \in ListPrompts}
    \cup {PyList(<<PyDict([content |-> PyStr(p)])>>) : p \in ListPrompts}
    \cup {PyList(<<PyStr(s_length), PyStr(p)>>) : p \in ListPrompts}
    \cup {PyList(<<>>), PyNone, PyList(<<PyDict([role |-> PyStr(<<"u">>)])>>),
          PyList(<<PyDict([content |-> PyNone])>>), PyList(<<PyNone>>)}

InitInvoke ==
    /\ pc = "AWAITING_MODEL"
    /\ available_tools = <<text_length_tool>>
    /\ model_with_tools = implement_create_model_with_tools(<<text_length_tool>>)
    /\ user_input \in MessageForms
    /\ response = NoResponse
    /\ result = PyNone
    /\ raised = "none"
    /\ model_calls = <<>>
    /\ tool_invocations = <<>>

SpecInvoke == InitInvoke /\ [][Next]_vars

\* The agent loop and the executor on any registry and any model response:
\* registries of up to MaxTools tools, two of which share the name
\* get_text_length, and a model object that answers with a prepared
\* AIMessage of up to MaxCalls tool calls.
s_echo == <<"e","c","h","o">>
s_nope == <<"n","o","p","e">>
s_hi == <<"h","i">>
s_ab == <<"a","b">>
s_xyz == <<"x","y","z">>

echo_tool == Tool(s_echo, "Returns its input", "echo")
shadow_tool == Tool(s_get_text_length, "Returns its input", "echo")

Registries == SeqsUpTo({text_length_tool, shadow_tool, echo_tool}, MaxTools)

PreparedCalls ==
    {ToolCall(n, TextArgs(PyStr(t)), "call_0") :
        n \in {s_get_text_length, s_echo, s_nope}, t \in {s_ab, s_xyz}}

PreparedReplies ==
    {AIMessage(PyStr(c), calls) :
        c \in {<<>>, s_hi}, calls \in SeqsUpTo(PreparedCalls, MaxCalls)}

InitLoop ==
    /\ pc = "AWAITING_MODEL"
    /\ available_tools \in Registries
    /\ \/ /\ model_with_tools \in {[kind |-> "prepared", reply |-> m] : m \in PreparedReplies}
          /\ user_input = PyStr(s_hi)
       \/ /\ model_with_tools = implement_create_model_with_tools(available_tools)
          /\ user_input \in {PyStr(user_question), PyStr(s_hi)}
    /\ response = NoResponse
    /\ result = PyNone
    /\ raised = "none"
    /\ model_calls = <<>>
    /\ tool_invocations = <<>>

SpecLoop == InitLoop /\ [][Next]_vars

\* The loop is straight-line code: a step that can be taken is taken.
FairSpecLoop == InitLoop /\ [][Next]_vars /\ WF_vars(Next)

\* get_text_length through the executor, on every text of up to MaxTextLen
\* characters over letters, both quotes, the newline and the space.
TextChars == {"a", "'", "\"", "\n", " "}
Texts == SeqsUpTo(TextChars, MaxTextLen)

InitTool ==
    /\ pc = "AWAITING_MODEL"
    /\ available_tools = <<text_length_tool>>
    /\ \E t \in Texts :
          model_with_tools =
              [kind |-> "prepared",
               reply |-> AIMessage(PyStr(<<>>),
                            <<ToolCall(s_get_text_length, TextArgs(PyStr(t)), "call_0")>>)]
    /\ user_input = PyStr(s_hi)
    /\ response = NoResponse
    /\ result = PyNone
    /\ raised = "none"
    /\ model_calls = <<>>
    /\ tool_invocations = <<>>

SpecTool == InitTool /\ [][Next]_vars


---------------------------------------------------------------------------
(* The claims. What a claim expects is written out here on its own, not    *)
(* taken from the definitions above.                                       *)

Min(S) == CHOOSE x \in S : \A y \in S : x <= y
Max(S) == CHOOSE x \in S : \A y \in S : x >= y

\* The mock model was handed a str.
MockOnStr == model_with_tools.kind = "ChatOpenAI" /\ user_input.t = "str"
Prompt == user_input.v

\* The upper-case letter of each lower-case one.
UpperOf == [c \in LowerSet |-> UpperChars[CHOOSE n \in DOMAIN LowerChars : LowerChars[n] = c]]

\* The lower-case word stands at s[i..] in some letter case.
AnyCaseAt(s, i, word) ==
    /\ i >= 1
    /\ i + Len(word) - 1 <= Len(s)
    /\ \A j \in 1..Len(word) : s[i + j - 1] = word[j] \/ s[i + j - 1] = UpperOf[word[j]]

\* The lower-case word occurs in s in some letter case.
ContainsAnyCase(s, word) == \E i \in 1..Len(s) : AnyCaseAt(s, i, word)

HasLength == ContainsAnyCase(Prompt, <<"l","e","n","g","t","h">>)
HasDog == ContainsAnyCase(Prompt, <<"d","o","g">>)

Responded == pc \in {"EXECUTING_TOOL", "DONE"}
\* The text argument of the tool call the response carries.
CallText == response.tool_calls[1].args.v.text

ExpectedName == <<"g","e","t","_","t","e","x","t","_","l","e","n","g","t","h">>
ExpectedFallback ==
    <<"I"," ","c","a","n"," ","h","e","l","p"," ","y","o","u"," ","w","i","t","h"," ",
      "t","e","x","t"," ","l","e","n","g","t","h"," ","c","a","l","c","u","l","a","t",
      "i","o","n","s","!">>
ExpectedUnknown == <<"u","n","k","n","o","w","n">>

\* C2: for every prompt that holds both "length" and "dog" in any letter
\* case, the mock model answers with exactly one tool call, named
\* get_text_length with args text = "DOG", and the agent loop run with
\* [text_length_tool] returns "3".
C2_LengthAndDogGiveDOG ==
    (MockOnStr /\ HasLength /\ HasDog) =>
        /\ pc # "RAISED"
        /\ Responded =>
              /\ Len(response.tool_calls) = 1
              /\ response.tool_calls[1].name = ExpectedName
              /\ response.tool_calls[1].args = PyDict([text |-> PyStr(<<"D","O","G">>)])
        /\ pc = "DONE" => result = PyStr(<<"3">>)

\* C2's case: a finished run on "Length of DoG", neither word in lower case.
C2_Witness ==
    /\ pc = "DONE"
    /\ MockOnStr
    /\ Prompt = <<"L","e","n","g","t","h"," ","o","f"," ","D","o","G">>
    /\ result = PyStr(<<"3">>)

\* C5: for every prompt without "length" in any letter case the agent loop
\* goes straight from the model to the answer, returns the fixed fallback
\* sentence and invokes no tool.
C5_NoLengthGivesFallback ==
    (MockOnStr /\ ~HasLength) =>
        /\ pc \in {"AWAITING_MODEL", "DONE"}
        /\ tool_invocations = <<>>
        /\ pc = "DONE" => result = PyStr(ExpectedFallback)

\* C5's case: a finished run on a non-empty prompt that mentions dog and a
\* colon but not length.
C5_Witness ==
    /\ pc = "DONE"
    /\ MockOnStr
    /\ ~HasLength
    /\ HasDog
    /\ ":" \in Range(Prompt)
    /\ tool_invocations = <<>>

\* Pattern k of the list matches the prompt.
PatternMatches(k) == re_search(patterns[k], Prompt, TRUE).ok
\* The first capture group of pattern k on the prompt.
PatternGroup(k) == re_search(patterns[k], Prompt, TRUE).group1
NoPatternMatches == \A k \in 1..6 : ~PatternMatches(k)

\* The patterns of the list that match the prompt, by their place in it.
MatchingPatterns == {k \in 1..6 : PatternMatches(k)}

\* C10: with "length" and without "dog" in the prompt, the text argument is
\* the first capture group of the earliest of the six patterns that matches,
\* and it is "unknown" exactly when none of the six matches.
C10_FirstMatchingPatternWins ==
    (MockOnStr /\ Responded /\ HasLength /\ ~HasDog) =>
        LET matching == MatchingPatterns
        IN /\ Len(response.tool_calls) = 1
           /\ matching # {} => CallText = PyStr(PatternGroup(Min(matching)))
           /\ matching = {} <=> CallText = PyStr(ExpectedUnknown)

\* C10's case: the second pattern is the first to match and the sixth,
\* which matches too, captures something else.
C10_Witness ==
    /\ MockOnStr /\ HasLength /\ ~HasDog /\ pc = "DONE"
    /\ ~PatternMatches(1)
    /\ PatternMatches(2)
    /\ PatternMatches(6)
    /\ PatternGroup(6) # PatternGroup(2)
    /\ CallText = PyStr(PatternGroup(2))

\* C9: on every str prompt the agent loop with the mock model and
\* [text_length_tool] never raises, what it returns is a str, it never
\* returns the "not found" text, and when no pattern extracts a text the
\* placeholder "unknown" is measured instead ("7").
C9_NeverRaisesReturnsStr ==
    MockOnStr =>
        /\ pc # "RAISED"
        /\ raised = "none"
        /\ pc \in {"AWAITING_MODEL", "EXECUTING_TOOL", "DONE"}
        /\ pc = "DONE" =>
              /\ result.t = "str"
              /\ ~Contains(result.v, <<"n","o","t"," ","f","o","u","n","d">>)
        /\ (pc = "DONE" /\ HasLength /\ ~HasDog /\ NoPatternMatches) =>
              /\ CallText = PyStr(ExpectedUnknown)
              /\ result = PyStr(<<"7">>)

\* C9's case: a finished run on a prompt no pattern matches.
C9_Witness ==
    /\ pc = "DONE"
    /\ MockOnStr /\ HasLength /\ ~HasDog
    /\ NoPatternMatches
    /\ result = PyStr(<<"7">>)

\* C4 as claimed: a prompt with "length", without "dog", without a quote,
\* without a colon, without "word" or "text" and without an upper-case
\* letter has the text "unknown" extracted and "7" returned.
C4_NoPatternGivesUnknown ==
    (/\ MockOnStr /\ pc = "DONE" /\ HasLength /\ ~HasDog
     /\ \A i \in DOMAIN Prompt : ~IsQuote(Prompt[i]) /\ Prompt[i] # ":" /\ ~IsUpper(Prompt[i])
     /\ ~ContainsAnyCase(Prompt, <<"w","o","r","d">>)
     /\ ~ContainsAnyCase(Prompt, <<"t","e","x","t">>))
        => CallText = PyStr(ExpectedUnknown) /\ result = PyStr(<<"7">>)


QuoteChars == {"'", "\""}

\* s[k] is a quote character that opens a non-empty text closed by a
\* further quote character.
OpensQuotedText(s, k) ==
    /\ k + 2 <= Len(s)
    /\ s[k] \in QuoteChars
    /\ s[k + 1] \notin QuoteChars
    /\ \E m \in (k + 2)..Len(s) : s[m] \in QuoteChars

\* The text between the quote at s[k] and the next quote character.
QuotedTextAt(s, k) ==
    SubSeq(s, k + 1, Min({m \in (k + 2)..Len(s) : s[m] \in QuoteChars}) - 1)

\* The openers that stand, on one line, behind "length" and then "of" or
\* "for".
QuoteOpeners(s) ==
    {k \in 1..Len(s) :
        /\ OpensQuotedText(s, k)
        /\ \E i \in 1..k, j \in 1..k :
              /\ AnyCaseAt(s, i, <<"l","e","n","g","t","h">>)
              /\ i + 6 <= j
              /\ \/ AnyCaseAt(s, j, <<"o","f">>) /\ j + 2 <= k
                 \/ AnyCaseAt(s, j, <<"f","o","r">>) /\ j + 3 <= k
              /\ \A n \in (i + 6)..(k - 1) : s[n] # "\n"}

\* s without the characters of chars at its two ends.
Trimmed(s, chars) ==
    LET keep == {i \in 1..Len(s) : s[i] \notin chars}
    IN IF keep = {} THEN <<>> ELSE SubSeq(s, Min(keep), Max(keep))

\* s[k] is a quote character that opens a word, one or more letters, closed
\* by a quote character at s[m].
QuotesWord(s, k, m) ==
    /\ k + 1 < m
    /\ s[k] \in QuoteChars
    /\ s[m] \in QuoteChars
    /\ \A n \in (k + 1)..(m - 1) : IsAlpha(s[n])

\* The quoted words of s, by the place of their opening quote.
QuotedWords(s) == {k \in 1..Len(s) : \E m \in (k + 2)..Len(s) : QuotesWord(s, k, m)}

\* C3 as claimed, for the prompts of the model's second rule (no "dog"): a
\* prompt with "length" and a quoted word has that word extracted and its
\* character count returned.
C3_QuotedWordIsMeasured ==
    (MockOnStr /\ pc = "DONE" /\ HasLength /\ ~HasDog /\ QuotedWords(Prompt) # {}) =>
        LET word == QuotedTextAt(Prompt, Min(QuotedWords(Prompt)))
        IN /\ CallText = PyStr(word)
           /\ result = PyStr(IntToStr(Len(word)))

\* C3, amended: with "length" and without "dog" in the prompt, when
\* "length" is followed on the same line by "of" or "for" and then by a
\* quote character that opens a non-empty text closed by another quote
\* character, the text argument is the text between the first such opening
\* quote and the next quote character, and the result is the character count
\* of that text without the newlines at its ends.
C3_QuotedTextAfterOfIsMeasured ==
    (MockOnStr /\ Responded /\ HasLength /\ ~HasDog) =>
        LET openers == QuoteOpeners(Prompt)
            quoted == QuotedTextAt(Prompt, Min(openers))
        IN openers # {} =>
              /\ CallText = PyStr(quoted)
              /\ pc = "DONE" => result = PyStr(IntToStr(Len(Trimmed(quoted, {"\n"}))))

\* C3's case: a finished run on "length of 'cats'".
C3_Witness ==
    /\ pc = "DONE"
    /\ MockOnStr
    /\ Prompt = <<"l","e","n","g","t","h"," ","o","f"," ","'","c","a","t","s","'">>
    /\ CallText = PyStr(<<"c","a","t","s">>)
    /\ result = PyStr(<<"4">>)

\* C7: every response the mock model returns has empty content and exactly
\* one tool call, or non-empty content and no tool call.
C7_ResponseShape ==
    (model_with_tools.kind = "ChatOpenAI" /\ Responded) =>
        /\ response.content.t = "str"
        /\ \/ response.content.v = <<>> /\ Len(response.tool_calls) = 1
           \/ response.content.v # <<>> /\ response.tool_calls = <<>>

\* C7's case: a response with a tool call to a message list whose last
\* element is a dict.
C7_Witness ==
    /\ Responded
    /\ model_with_tools.kind = "ChatOpenAI"
    /\ user_input.t = "list"
    /\ Len(user_input.v) = 1
    /\ user_input.v[1].t = "dict"
    /\ Len(response.tool_calls) = 1
    /\ response.content.v = <<>>

\* The text the prepared tool call hands to get_text_length.
GivenText == model_with_tools.reply.tool_calls[1].args.v.text.v

FirstCall == response.tool_calls[1]
Matching == {i \in DOMAIN available_tools : available_tools[i].name = FirstCall.name}

\* C6: for a tool call whose arguments carry the text field, the executor
\* invokes exactly the first tool of the registry that has the call's name,
\* once, and no other tool; when no tool has the name it invokes none,
\* raises nothing and returns a str that holds "not found" and the name.
C6_FirstMatchOrNotFound ==
    /\ pc # "RAISED"
    /\ (pc = "DONE" /\ response.tool_calls # <<>>) =>
          IF Matching # {}
          THEN /\ Len(tool_invocations) = 1
               /\ tool_invocations[1].tool = Min(Matching)
          ELSE /\ tool_invocations = <<>>
               /\ raised = "none"
               /\ result.t = "str"
               /\ Contains(result.v, <<"n","o","t"," ","f","o","u","n","d">>)
               /\ Contains(result.v, FirstCall.name)

\* C6's case: two tools of the registry have the call's name, with
\* different functions, and the first of them was invoked.
C6_Witness ==
    /\ pc = "DONE"
    /\ response.tool_calls # <<>>
    /\ Cardinality(Matching) = 2
    /\ available_tools[1].func # available_tools[2].func
    /\ Len(tool_invocations) = 1
    /\ tool_invocations[1].tool = 1

\* A step of the loop: from the model to the answer or to the tool, or from
\* the tool to the answer.
LoopStep ==
    \/ pc = "AWAITING_MODEL" /\ pc' \in {"DONE", "EXECUTING_TOOL"}
    \/ pc = "EXECUTING_TOOL" /\ pc' = "DONE"

\* What holds of a run at each of its states.
LoopState ==
    /\ pc \in {"AWAITING_MODEL", "EXECUTING_TOOL", "DONE"}
    /\ model_calls = IF pc = "AWAITING_MODEL" THEN <<>> ELSE <<user_input>>
    /\ Len(tool_invocations) <= 1
    /\ pc # "DONE" => tool_invocations = <<>>
    /\ (pc = "DONE" /\ response.tool_calls = <<>>) =>
          /\ tool_invocations = <<>>
          /\ result = response.content
    /\ (pc = "DONE" /\ response.tool_calls # <<>>) =>
          /\ result.t = "str"
          /\ \A n \in DOMAIN tool_invocations :
                /\ tool_invocations[n].tool \in Matching
                /\ tool_invocations[n].input \in {FirstCall.args, FirstCall.args.v.text}
          /\ Matching # {} => Len(tool_invocations) = 1
          /\ (Matching # {} /\ available_tools[Min(Matching)].func = "echo") =>
                result \in {FirstCall.args.v.text, str(FirstCall.args)}

\* C1: every run goes AWAITING_MODEL -> DONE or AWAITING_MODEL ->
\* EXECUTING_TOOL -> DONE and ends; the model is invoked once, with the
\* user's text; with tool calls in the response only the first is executed,
\* by at most one tool invocation, and a str is returned; without, no tool is
\* invoked and the response's content is returned.
C1_SingleTurn ==
    /\ [][LoopStep]_vars
    /\ []LoopState
    /\ <>(pc = "DONE")

\* C1's case: a finished run on a response with two tool calls of different
\* names, of which the first was executed.
C1_Witness ==
    /\ pc = "DONE"
    /\ Len(response.tool_calls) = 2
    /\ response.tool_calls[1].name # response.tool_calls[2].name
    /\ Len(tool_invocations) = 1
    /\ available_tools[tool_invocations[1].tool].name = response.tool_calls[1].name
    /\ \E i \in DOMAIN available_tools : available_tools[i].name = response.tool_calls[2].name


====
